---- MODULE Spec2Model ----
(***************************************************************************)
(* Model of the adhoc_taskgraph fetch transforms (fetch.py) and of the     *)
(* promote_adhoc target-task selection (target.py).                        *)
(*                                                                         *)
(* Python dicts are functions with a domain of string keys; Python lists   *)
(* are sequences; Python strings are TLA+ strings, on which Len, SubSeq    *)
(* and \o work character by character.  Job dicts live in a heap and are   *)
(* named by reference, so that copying and aliasing differ.                *)
(***************************************************************************)
EXTENDS Integers, Sequences, FiniteSets, TLC

VARIABLES
    heap,             \* the job dicts, by reference (index)
    jobs,             \* input of from_manifests: references of the template jobs
    manifests,        \* what get_manifest() returned
    config,           \* config.params['level'], config.kind, taskgraph.fast
    fm_i, fm_j,       \* from_manifests: the (job, manifest) pair of the next yield
    fm_done,          \* from_manifests has returned
    expanded,         \* references of the jobs from_manifests has yielded
    pf_n,             \* process_fetch_job: how many jobs its loop has taken
    tasks,            \* what process_fetch_job has yielded: task and add_optimization calls
    pc,               \* process_fetch_job: "running", "done", or the exception raised
    full_task_graph,  \* target_tasks input: label -> task attributes
    target_tasks,     \* the list target_tasks_promote_xpi returned
    target_pc         \* target_tasks_promote_xpi: "start" or "returned"

vars == <<heap, jobs, manifests, config, fm_i, fm_j, fm_done, expanded, pf_n, tasks, pc,
          full_task_graph, target_tasks, target_pc>>

fetchVars == <<heap, jobs, manifests, config, fm_i, fm_j, fm_done, expanded, pf_n, tasks,
               pc>>

targetVars == <<full_task_graph, target_tasks, target_pc>>

-----------------------------------------------------------------------------
(* Bounds of the model *)

MaxJobs == 2

MaxManifests == 2

MaxGraphTasks == 3

-----------------------------------------------------------------------------
(* Python primitives *)

EmptyDict == [k \in {} |-> 0]

Put(d, k, v) == [x \in (DOMAIN d) \cup {k} |-> IF x = k THEN v ELSE d[x]]

\* bool(d.get(k)): a missing key, 0, '' and {} are falsy
Truthy(d, k) ==
    /\ k \in DOMAIN d
    /\ CASE k = "strip-components" -> d[k] # 0
         [] k = "gpg-signature"    -> DOMAIN d[k] # {}
         [] OTHER                  -> d[k] # ""

\* s.split('/')[-1]
RECURSIVE LastSegment(_)
LastSegment(s) ==
    IF s = "" THEN ""
    ELSE LET c == SubSeq(s, Len(s), Len(s))
         IN  IF c = "/" THEN "" ELSE LastSegment(SubSeq(s, 1, Len(s) - 1)) \o c

\* '%d' % n
RECURSIVE DecNat(_)
DecNat(n) ==
    LET d == SubSeq("0123456789", (n % 10) + 1, (n % 10) + 1)
    IN  IF n < 10 THEN d ELSE DecNat(n \div 10) \o d

Dec(n) == IF n < 0 THEN "-" \o DecNat(0 - n) ELSE DecNat(n)

StartsWith(s, p) == Len(s) >= Len(p) /\ SubSeq(s, 1, Len(p)) = p

EndsWith(s, p) == Len(s) >= Len(p) /\ SubSeq(s, Len(s) - Len(p) + 1, Len(s)) = p

\* sig_url.format(url=url), for templates whose only replacement field is {url}
RECURSIVE FormatUrl(_, _)
FormatUrl(s, url) ==
    IF s = "" THEN ""
    ELSE IF StartsWith(s, "{url}") THEN url \o FormatUrl(SubSeq(s, 6, Len(s)), url)
    ELSE SubSeq(s, 1, 1) \o FormatUrl(SubSeq(s, 2, Len(s)), url)

\* s.replace(old, '', 1)
RECURSIVE RemoveFirst(_, _)
RemoveFirst(s, old) ==
    IF Len(s) < Len(old) \/ old = "" THEN s
    ELSE IF StartsWith(s, old) THEN SubSeq(s, Len(old) + 1, Len(s))
    ELSE SubSeq(s, 1, 1) \o RemoveFirst(SubSeq(s, 2, Len(s)), old)

-----------------------------------------------------------------------------
(* The inputs the model draws from *)

GpgSignature(sig_url, key_path) == ("sig-url" :> sig_url) @@ ("key-path" :> key_path)

\* Template jobs of the kind: one without a fetch record, one with a literal
\* url, archive options and an empty artifact name, one with falsy options
\* and its own signature and artifact name.
Templates ==
    { ("name" :> "a") @@ ("description" :> "da"),
      ("name" :> "b") @@ ("description" :> "db") @@
          ("fetch" :> ( ("type" :> "static-url") @@ ("url" :> "x/lit.zip") @@
                        ("sha256" :> "00") @@ ("size" :> 5) @@
                        ("artifact-name" :> "") @@
                        ("strip-components" :> 1) @@ ("add-prefix" :> "p") )),
      ("name" :> "c") @@ ("description" :> "dc") @@
          ("fetch" :> ( ("artifact-name" :> "t.tar.zst") @@
                        ("gpg-signature" :> GpgSignature("sig", "k2")) @@
                        ("strip-components" :> 0) @@ ("add-prefix" :> "") )) }

\* Records get_manifest() may return.
ManifestRecords ==
    { ("url" :> "h/a.tar.zst") @@ ("sha256" :> "aa") @@ ("filesize" :> 10),
      ("url" :> "g/x.zip") @@ ("sha256" :> "aa") @@ ("filesize" :> 10) @@
          ("artifact-name" :> "a.tar.zst") @@
          ("gpg-signature" :> GpgSignature("{url}.asc", "k1")),
      ("url" :> "h/b.zip") @@ ("sha256" :> "bb") @@ ("filesize" :> 7) @@
          ("artifact-name" :> "") @@ ("gpg-signature" :> EmptyDict) }

Levels == {"1", "2", "3"}

SeqsUpTo(S, n) == UNION { [1..k -> S] : k \in 0..n }

-----------------------------------------------------------------------------
(* from_manifests *)

\* deepcopy left out (task = job): the "copy" is the template itself
DeepcopyRefAlias(h, ref) == ref

\* deepcopy(job): the reference of the copy, a fresh object
DeepcopyRef(h, ref) == Len(h) + 1

\* if manifest.get(k): fetch[k] = manifest[k]
CopyIfSet(fetch, manifest, k) ==
    IF Truthy(manifest, k) THEN Put(fetch, k, manifest[k]) ELSE fetch

\* the overlay written with setdefault for url: a template's own url is kept
OverlayKeepUrl(fetch, manifest) ==
    LET f1 == IF "url" \in DOMAIN fetch THEN fetch ELSE Put(fetch, "url", manifest["url"])
        f2 == Put(f1, "sha256", manifest["sha256"])
        f3 == Put(f2, "size", manifest["filesize"])
        f4 == CopyIfSet(f3, manifest, "gpg-signature")
    IN  CopyIfSet(f4, manifest, "artifact-name")

\* the assignments to the copy's fetch record
Overlay(fetch, manifest) ==
    LET f1 == Put(fetch, "url", manifest["url"])
        f2 == Put(f1, "sha256", manifest["sha256"])
        f3 == Put(f2, "size", manifest["filesize"])
        f4 == CopyIfSet(f3, manifest, "gpg-signature")
    IN  CopyIfSet(f4, manifest, "artifact-name")

\* the inner loop stopping one manifest short
NextPairShort(i, j) == IF j + 1 < Len(manifests) THEN <<i, j + 1>> ELSE <<i + 1, 1>>

\* the pair of loop indices after (i, j)
NextPair(i, j) == IF j < Len(manifests) THEN <<i, j + 1>> ELSE <<i + 1, 1>>

\* One resumption of the generator that ends at its yield.
FromManifestsYield ==
    /\ ~fm_done
    /\ fm_i <= Len(jobs)
    /\ fm_j <= Len(manifests)
    /\ LET job      == jobs[fm_i]
           manifest == manifests[fm_j]
           task     == DeepcopyRef(heap, job)
           copied   == Append(heap, heap[job])
           fetch    == IF "fetch" \in DOMAIN copied[task]
                          THEN copied[task]["fetch"] ELSE EmptyDict
       IN  /\ heap' = [copied EXCEPT ![task] = Put(@, "fetch", Overlay(fetch, manifest))]
           /\ expanded' = Append(expanded, task)
           /\ fm_i' = NextPair(fm_i, fm_j)[1]
           /\ fm_j' = NextPair(fm_i, fm_j)[2]
    /\ UNCHANGED <<jobs, manifests, config, fm_done, pf_n, tasks, pc>>
    /\ UNCHANGED targetVars

\* The resumption in which both loops run out.
FromManifestsReturn ==
    /\ ~fm_done
    /\ fm_i > Len(jobs) \/ fm_j > Len(manifests)
    /\ fm_done' = TRUE
    /\ UNCHANGED <<heap, jobs, manifests, config, fm_i, fm_j, expanded, pf_n, tasks, pc>>
    /\ UNCHANGED targetVars

-----------------------------------------------------------------------------
(* FETCH_SCHEMA *)

JobKeys == {"name", "job-from", "description", "fetch"}

FetchKeys == {"type", "url", "sha256", "size", "gpg-signature", "artifact-name",
              "strip-components", "add-prefix"}

\* transforms.add_validate(FETCH_SCHEMA): required and allowed keys
ValidFetchJob(job) ==
    /\ DOMAIN job \subseteq JobKeys
    /\ {"name", "description", "fetch"} \subseteq DOMAIN job
    /\ LET fetch == job["fetch"]
       IN  /\ DOMAIN fetch \subseteq FetchKeys
           /\ {"url", "sha256", "size"} \subseteq DOMAIN fetch
           /\ "type" \in DOMAIN fetch => fetch["type"] = "static-url"
           /\ "gpg-signature" \in DOMAIN fetch =>
                  DOMAIN fetch["gpg-signature"] = {"sig-url", "key-path"}

-----------------------------------------------------------------------------
(* make_base_task and create_fetch_url_task *)

CACHE_TYPE == "content.v1"

\* taskgraph.GECKO, the root the key paths are relative to
GECKO == "/gecko"

\* os.path.join(taskgraph.GECKO, key_path)
PathJoin(root, path) == IF StartsWith(path, "/") THEN path ELSE root \o "/" \o path

IOError == "IOError"

NoFile == "NoFile"

\* open(key_path, 'rb').read(): the file's content, or the exception
OpenOutcomes(key_path) == {IOError, "key@" \o key_path}

\* the level test inverted around the lowest level
ExpiresLowest(level) == IF level = "1" THEN "28 days" ELSE "1000 years"

Expires(level) == IF level = "3" THEN "1000 years" ELSE "28 days"

make_base_task(cfg, name, description, command) ==
    ("attributes" :> EmptyDict) @@
    ("name" :> name) @@
    ("description" :> description) @@
    ("expires-after" :> Expires(cfg["level"])) @@
    ("label" :> "fetch-" \o name) @@
    ("run-on-projects" :> <<>>) @@
    ("run" :> ( ("using" :> "run-task") @@ ("checkout" :> FALSE) @@
                ("command" :> command) )) @@
    ("worker-type" :> "images") @@
    ("worker" :> ( ("chain-of-trust" :> TRUE) @@
                   ("docker-image" :> ("in-tree" :> "fetch")) @@
                   ("env" :> EmptyDict) @@
                   ("max-run-time" :> 900) ))

\* artifact_name: the explicit name unless falsy, else the file portion of the url
ArtifactName(fetch) ==
    IF Truthy(fetch, "artifact-name") THEN fetch["artifact-name"]
    ELSE LastSegment(fetch["url"])

\* args with the options tested by key presence instead of truthiness
ArgsKeyPresence(fetch) ==
    <<"--sha256", fetch["sha256"], "--size", Dec(fetch["size"])>>
    \o (IF "strip-components" \in DOMAIN fetch
           THEN <<"--strip-components", Dec(fetch["strip-components"])>> ELSE <<>>)
    \o (IF "add-prefix" \in DOMAIN fetch
           THEN <<"--add-prefix", fetch["add-prefix"]>> ELSE <<>>)

\* args with the two archive options appended in the other order
ArgsReordered(fetch) ==
    <<"--sha256", fetch["sha256"], "--size", Dec(fetch["size"])>>
    \o (IF Truthy(fetch, "add-prefix")
           THEN <<"--add-prefix", fetch["add-prefix"]>> ELSE <<>>)
    \o (IF Truthy(fetch, "strip-components")
           THEN <<"--strip-components", Dec(fetch["strip-components"])>> ELSE <<>>)

\* args: the arguments that matter to the cache digest
Args(fetch) ==
    <<"--sha256", fetch["sha256"], "--size", Dec(fetch["size"])>>
    \o (IF Truthy(fetch, "strip-components")
           THEN <<"--strip-components", Dec(fetch["strip-components"])>> ELSE <<>>)
    \o (IF Truthy(fetch, "add-prefix")
           THEN <<"--add-prefix", fetch["add-prefix"]>> ELSE <<>>)

HasGpg(fetch) == "gpg-signature" \in DOMAIN fetch

GpgArgs(fetch) ==
    IF HasGpg(fetch)
    THEN <<"--gpg-sig-url", FormatUrl(fetch["gpg-signature"]["sig-url"], fetch["url"]),
           "--gpg-key-env", "FETCH_GPG_KEY">>
    ELSE <<>>

Command(fetch) ==
    <<"/builds/worker/bin/fetch-content", "static-url">>
    \o Args(fetch)
    \o GpgArgs(fetch)
    \o <<fetch["url"], "/builds/worker/artifacts/" \o ArtifactName(fetch)>>

Env(fetch, gpg_key) == IF HasGpg(fetch) THEN ("FETCH_GPG_KEY" :> gpg_key) ELSE EmptyDict

\* the digest taken over the whole command, signature arguments included
DigestDataWithGpg(fetch) == Args(fetch) \o GpgArgs(fetch) \o <<ArtifactName(fetch)>>

\* digest_data=args + [artifact_name]
DigestData(fetch) == Args(fetch) \o <<ArtifactName(fetch)>>

\* the add_optimization calls made for the task: none when taskgraph.fast
Optimization(cfg, label, fetch) ==
    IF cfg["fast"] THEN <<>>
    ELSE << ("cache_type" :> CACHE_TYPE) @@
            ("cache_name" :> RemoveFirst(label, cfg["kind"] \o "-")) @@
            ("digest_data" :> DigestData(fetch)) >>

\* the task returned when the key file, if any, was read as gpg_key
create_fetch_url_task(cfg, job, gpg_key) ==
    LET fetch == job["fetch"]
        base  == make_base_task(cfg, job["name"], job["description"], Command(fetch))
        worker == Put(Put(base["worker"], "artifacts",
                          << ("type" :> "directory") @@ ("name" :> "adhoc") @@
                             ("path" :> "/builds/worker/artifacts") >>),
                      "env", Env(fetch, gpg_key))
        attributes == Put(base["attributes"], "fetch-artifact",
                          "releng/adhoc/" \o ArtifactName(fetch))
        task  == Put(Put(base, "worker", worker), "attributes", attributes)
    IN  [task |-> task, optimization |-> Optimization(cfg, task["label"], fetch)]

-----------------------------------------------------------------------------
(* process_fetch_job *)

\* process_fetch_job with the compilation wrapped in try/except: a job whose
\* key file cannot be read is dropped and the loop goes on
ProcessFetchJobSwallow ==
    /\ pc = "running"
    /\ pf_n < Len(expanded)
    /\ pf_n' = pf_n + 1
    /\ pc' = pc
    /\ LET job == heap[expanded[pf_n + 1]]
       IN  \E fh \in IF HasGpg(job["fetch"])
                        THEN OpenOutcomes(PathJoin(GECKO,
                                 job["fetch"]["gpg-signature"]["key-path"]))
                        ELSE {NoFile} :
               IF fh = IOError
               THEN tasks' = tasks
               ELSE tasks' = Append(tasks, create_fetch_url_task(config, job, fh))
    /\ UNCHANGED <<heap, jobs, manifests, config, fm_i, fm_j, fm_done, expanded>>
    /\ UNCHANGED targetVars

\* One resumption of the generator: it takes the next validated job and
\* yields its task, or the exception of the validation or of the compilation
\* propagates out of it.
ProcessFetchJob ==
    /\ pc = "running"
    /\ pf_n < Len(expanded)
    /\ pf_n' = pf_n + 1
    /\ LET job == heap[expanded[pf_n + 1]]
       IN  IF ~ValidFetchJob(job)
           THEN /\ pc' = "Invalid"
                /\ tasks' = tasks
           ELSE \E fh \in IF HasGpg(job["fetch"])
                             THEN OpenOutcomes(PathJoin(GECKO,
                                      job["fetch"]["gpg-signature"]["key-path"]))
                             ELSE {NoFile} :
                    IF fh = IOError
                    THEN /\ pc' = IOError
                         /\ tasks' = tasks
                    ELSE /\ pc' = pc
                         /\ tasks' = Append(tasks, create_fetch_url_task(config, job, fh))
    /\ UNCHANGED <<heap, jobs, manifests, config, fm_i, fm_j, fm_done, expanded>>
    /\ UNCHANGED targetVars

\* The resumption in which the input generator is exhausted.
ProcessFetchJobReturn ==
    /\ pc = "running"
    /\ fm_done
    /\ pf_n = Len(expanded)
    /\ pc' = "done"
    /\ UNCHANGED <<heap, jobs, manifests, config, fm_i, fm_j, fm_done, expanded, pf_n,
                   tasks>>
    /\ UNCHANGED targetVars

-----------------------------------------------------------------------------
(* target_tasks_promote_xpi *)

Phases == {"build", "promote", "ship", "push"}

\* the filter keeping the promote phase only
filterPromoteOnly(attributes) ==
    /\ "shipping-phase" \in DOMAIN attributes
    /\ attributes["shipping-phase"] = "promote"

\* filter(task, parameters)
filter(attributes) ==
    /\ "shipping-phase" \in DOMAIN attributes
    /\ attributes["shipping-phase"] \in {"build", "promote"}

\* the labels the list comprehension keeps
Selected(graph) == { l \in DOMAIN graph : filter(graph[l]) }

\* The lists a comprehension over graph.tasks.iteritems() can give: the kept
\* labels, once each, in the order the dict iterates.
Orderings(S) ==
    { q \in [1..Cardinality(S) -> S] : \A a, b \in DOMAIN q : a # b => q[a] # q[b] }

TargetTasksPromote ==
    /\ target_pc = "start"
    /\ \E result \in Orderings(Selected(full_task_graph)) : target_tasks' = result
    /\ target_pc' = "returned"
    /\ UNCHANGED full_task_graph
    /\ UNCHANGED fetchVars

GraphLabels == { "t" \o Dec(n) : n \in 1..MaxGraphTasks }

AttributeSets ==
    {EmptyDict} \cup { ("shipping-phase" :> p) : p \in Phases }
              \cup { ("kind" :> "fetch") @@ ("shipping-phase" :> "promote") }

-----------------------------------------------------------------------------
(* Specifications *)

InitFetch ==
    /\ \E ts \in SeqsUpTo(Templates, MaxJobs) :
           /\ heap = ts
           /\ jobs = [k \in 1..Len(ts) |-> k]
    /\ manifests \in SeqsUpTo(ManifestRecords, MaxManifests)
    /\ config \in { ("level" :> l) @@ ("kind" :> "fetch") @@ ("fast" :> f) :
                        l \in Levels, f \in BOOLEAN }
    /\ fm_i = 1
    /\ fm_j = 1
    /\ fm_done = FALSE
    /\ expanded = <<>>
    /\ pf_n = 0
    /\ tasks = <<>>
    /\ pc = "running"

Init ==
    /\ InitFetch
    /\ full_task_graph = EmptyDict
    /\ target_tasks = <<>>
    /\ target_pc = "start"

Next ==
    \/ FromManifestsYield
    \/ FromManifestsReturn
    \/ ProcessFetchJob
    \/ ProcessFetchJobReturn

Spec == Init /\ [][Next]_vars

TargetInit ==
    /\ heap = <<>>
    /\ jobs = <<>>
    /\ manifests = <<>>
    /\ config = ("level" :> "1") @@ ("kind" :> "fetch") @@ ("fast" :> FALSE)
    /\ fm_i = 1
    /\ fm_j = 1
    /\ fm_done = TRUE
    /\ expanded = <<>>
    /\ pf_n = 0
    /\ tasks = <<>>
    /\ pc = "done"
    /\ \E S \in SUBSET GraphLabels : full_task_graph \in [S -> AttributeSets]
    /\ target_tasks = <<>>
    /\ target_pc = "start"

TargetNext == TargetTasksPromote

TargetSpec == TargetInit /\ [][TargetNext]_vars

-----------------------------------------------------------------------------
(* Vocabulary of the properties *)

Remove(d, k) == [x \in (DOMAIN d) \ {k} |-> d[x]]

\* both lack the key, or both have it with the same value
FieldEq(f, g, k) ==
    /\ k \in DOMAIN f <=> k \in DOMAIN g
    /\ k \in DOMAIN f => f[k] = g[k]

\* the descriptor process_fetch_job compiled into its k-th task
Desc(k) == heap[expanded[k]]

Fetch(k) == Desc(k)["fetch"]

\* the (job, manifest) pair the k-th yield of from_manifests comes from
JobIdx(k) == ((k - 1) \div Len(manifests)) + 1

ManIdx(k) == ((k - 1) % Len(manifests)) + 1

Template(k) == heap[jobs[JobIdx(k)]]

TemplateFetch(t) == IF "fetch" \in DOMAIN t THEN t["fetch"] ELSE EmptyDict

Manifest(k) == manifests[ManIdx(k)]

OutputsOf(i) == { k \in 1..Len(expanded) : JobIdx(k) = i }

\* the tasks for which add_optimization was called, and its digest_data
Cached == { k \in 1..Len(tasks) : Len(tasks[k].optimization) > 0 }

Digest(k) == tasks[k].optimization[1]["digest_data"]

CommandOf(k) == tasks[k].task["run"]["command"]

IsDigit(c) == \E d \in 0..9 : SubSeq("0123456789", d + 1, d + 1) = c

DigitValue(c) == CHOOSE d \in 0..9 : SubSeq("0123456789", d + 1, d + 1) = c

RECURSIVE ParseNat(_)
ParseNat(s) ==
    IF s = "" THEN 0
    ELSE ParseNat(SubSeq(s, 1, Len(s) - 1)) * 10 + DigitValue(SubSeq(s, Len(s), Len(s)))

\* s is the decimal numeral of the natural number n, without leading zeros
IsDecimalOf(s, n) ==
    /\ Len(s) >= 1
    /\ \A p \in 1..Len(s) : IsDigit(SubSeq(s, p, p))
    /\ Len(s) > 1 => SubSeq(s, 1, 1) # "0"
    /\ ParseNat(s) = n

\* n is what follows the last '/' of url (all of url when it has none)
IsLastSegment(n, url) ==
    /\ EndsWith(url, n)
    /\ \A p \in 1..Len(n) : SubSeq(n, p, p) # "/"
    /\ Len(n) < Len(url) => SubSeq(url, Len(url) - Len(n), Len(url) - Len(n)) = "/"

\* the artifact name the descriptor resolves to
IsResolvedName(n, fetch) ==
    IF "artifact-name" \in DOMAIN fetch /\ fetch["artifact-name"] # ""
    THEN n = fetch["artifact-name"]
    ELSE IsLastSegment(n, fetch["url"])

SameResolvedName(f, g) == \E n \in {ArtifactName(f)} : IsResolvedName(n, f) /\ IsResolvedName(n, g)

\* the two descriptors agree on every cache-relevant field
AgreeOnContent(f, g) ==
    /\ f["sha256"] = g["sha256"]
    /\ f["size"] = g["size"]
    /\ FieldEq(f, g, "strip-components")
    /\ FieldEq(f, g, "add-prefix")
    /\ SameResolvedName(f, g)

Signatures == { GpgSignature(u, k) : u \in {"{url}.sig", "s"}, k \in {"k1", "k3"} }

-----------------------------------------------------------------------------
(* C1: two compiled descriptors that agree on sha256, size, strip-components,
   add-prefix and the resolved artifact name get the same digest_data, and
   adding, removing or changing the gpg-signature of a compiled descriptor
   leaves its digest_data as it is. *)
DigestIgnoresOtherFields ==
    /\ \A a, b \in Cached :
           AgreeOnContent(Fetch(a), Fetch(b)) => Digest(a) = Digest(b)
    /\ \A a \in Cached :
           /\ DigestData(Remove(Fetch(a), "gpg-signature")) = Digest(a)
           /\ \A g \in Signatures :
                  DigestData(Put(Fetch(a), "gpg-signature", g)) = Digest(a)

\* two cached tasks agree on the content fields, differ in url and only one is signed
DigestIgnoresOtherFieldsWitness ==
    \E a, b \in Cached :
        /\ AgreeOnContent(Fetch(a), Fetch(b))
        /\ Fetch(a)["url"] # Fetch(b)["url"]
        /\ HasGpg(Fetch(a))
        /\ ~HasGpg(Fetch(b))

-----------------------------------------------------------------------------
\* an archive option is in effect and the artifact is no .tar.zst archive
ArchiveOptionMisuse(fetch) ==
    /\ Truthy(fetch, "strip-components") \/ Truthy(fetch, "add-prefix")
    /\ ~EndsWith(ArtifactName(fetch), ".tar.zst")

(* C2: a descriptor with strip-components or add-prefix set whose resolved
   artifact name does not end in .tar.zst is rejected: no task record is
   emitted for it. *)
ArchiveOptionMisuseRejected ==
    \A k \in 1..Len(tasks) : ~ArchiveOptionMisuse(Fetch(k))

-----------------------------------------------------------------------------
(* C5 as stated: digest_data is the value list sha256, decimal size, then
   strip-components and add-prefix if present, then the resolved artifact
   name, and nothing else. *)
DigestIsValueList ==
    \A k \in Cached :
        LET f == Fetch(k)
        IN  Digest(k) =
                <<f["sha256"], Dec(f["size"])>>
                \o (IF "strip-components" \in DOMAIN f
                       THEN <<Dec(f["strip-components"])>> ELSE <<>>)
                \o (IF "add-prefix" \in DOMAIN f THEN <<f["add-prefix"]>> ELSE <<>>)
                \o <<ArtifactName(f)>>

(* C5 amended: digest_data is the option list '--sha256', sha256, '--size',
   decimal size, then '--strip-components' and its decimal value if
   strip-components is present and not 0, then '--add-prefix' and its value if
   add-prefix is present and not empty, then the resolved artifact name as last
   element, and nothing else: 5 elements with neither option. *)
DigestIsOptionList ==
    \A k \in Cached :
        LET f    == Fetch(k)
            d    == Digest(k)
            hasS == "strip-components" \in DOMAIN f /\ f["strip-components"] # 0
            hasP == "add-prefix" \in DOMAIN f /\ f["add-prefix"] # ""
            atP  == IF hasS THEN 7 ELSE 5
        IN  /\ Len(d) = 5 + (IF hasS THEN 2 ELSE 0) + (IF hasP THEN 2 ELSE 0)
            /\ d[1] = "--sha256"
            /\ d[2] = f["sha256"]
            /\ d[3] = "--size"
            /\ IsDecimalOf(d[4], f["size"])
            /\ hasS => d[5] = "--strip-components" /\ IsDecimalOf(d[6], f["strip-components"])
            /\ hasP => d[atP] = "--add-prefix" /\ d[atP + 1] = f["add-prefix"]
            /\ IsResolvedName(d[Len(d)], f)

\* cached tasks with neither option, with both, and with a name taken from the url
DigestIsOptionListWitness ==
    /\ \E k \in Cached : Len(Digest(k)) = 5 /\ ~Truthy(Fetch(k), "artifact-name")
    /\ \E k \in Cached : Len(Digest(k)) = 9

-----------------------------------------------------------------------------
(* C8: the expires-after of every emitted task is '1000 years' when the level
   parameter is '3' and '28 days' for every other level, whatever the
   descriptor. *)
ExpiryFollowsLevel ==
    \A k \in 1..Len(tasks) :
        /\ config["level"] = "3" => tasks[k].task["expires-after"] = "1000 years"
        /\ config["level"] # "3" => tasks[k].task["expires-after"] = "28 days"

\* two tasks of different descriptors emitted at a level that is neither 3 nor 1
ExpiryFollowsLevelWitness ==
    /\ config["level"] = "2"
    /\ \E a, b \in 1..Len(tasks) : Desc(a) # Desc(b)

-----------------------------------------------------------------------------
FalsyOptions == {"strip-components", "add-prefix", "artifact-name"}

IsFalsy(fetch, k) == k \in DOMAIN fetch /\ ~Truthy(fetch, k)

(* C10: a descriptor with strip-components = 0, add-prefix = '' or
   artifact-name = '' compiles to the command and the digest_data of the
   descriptor without that field, and a non-zero strip-components or non-empty
   add-prefix makes the digest_data differ from that of the descriptor
   without it. *)
FalsyOptionIsAbsent ==
    \A k \in 1..Len(tasks) :
        /\ \A o \in FalsyOptions :
               IsFalsy(Fetch(k), o) =>
                   /\ CommandOf(k) = Command(Remove(Fetch(k), o))
                   /\ k \in Cached => Digest(k) = DigestData(Remove(Fetch(k), o))
        /\ \A o \in {"strip-components", "add-prefix"} :
               (Truthy(Fetch(k), o) /\ k \in Cached) =>
                   Digest(k) # DigestData(Remove(Fetch(k), o))

\* cached tasks of a descriptor with strip-components 0 and add-prefix '', of
\* one with artifact-name '', and of one with both options in effect
FalsyOptionIsAbsentWitness ==
    /\ \E k \in Cached : IsFalsy(Fetch(k), "strip-components") /\ IsFalsy(Fetch(k), "add-prefix")
    /\ \E k \in Cached : IsFalsy(Fetch(k), "artifact-name")
    /\ \E k \in Cached : Truthy(Fetch(k), "strip-components") /\ Truthy(Fetch(k), "add-prefix")

-----------------------------------------------------------------------------
\* the i-th template job has a literal url in its fetch record
HasLiteralUrl(i) == "url" \in DOMAIN TemplateFetch(heap[jobs[i]])

(* C3 as stated: a job whose fetch record has a literal url bypasses the
   expansion: from_manifests emits it exactly once, with its url, sha256 and
   size unchanged, however many manifest records there are. *)
LiteralUrlBypassesExpansion ==
    fm_done =>
        \A i \in 1..Len(jobs) :
            HasLiteralUrl(i) =>
                /\ Cardinality(OutputsOf(i)) = 1
                /\ \A k \in OutputsOf(i) :
                       \A f \in {"url", "sha256", "size"} :
                           FieldEq(Fetch(k), TemplateFetch(heap[jobs[i]]), f)

(* C3 amended: a job whose fetch record has a literal url is expanded like any
   other: from_manifests emits it once per manifest record (not at all when
   there is none), each time with url, sha256 and size replaced by the
   manifest record's url, sha256 and filesize. *)
LiteralUrlIsExpanded ==
    \A i \in 1..Len(jobs) :
        HasLiteralUrl(i) =>
            /\ \A k \in OutputsOf(i) :
                   /\ Fetch(k)["url"] = Manifest(k)["url"]
                   /\ Fetch(k)["sha256"] = Manifest(k)["sha256"]
                   /\ Fetch(k)["size"] = Manifest(k)["filesize"]
            /\ fm_done => Cardinality(OutputsOf(i)) = Len(manifests)

\* from_manifests has returned after expanding a literal-url job over two
\* manifest records whose urls are not the job's
LiteralUrlIsExpandedWitness ==
    /\ fm_done
    /\ Len(manifests) = 2
    /\ \E i \in 1..Len(jobs) :
           /\ HasLiteralUrl(i)
           /\ Cardinality(OutputsOf(i)) = 2
           /\ \A k \in OutputsOf(i) : Fetch(k)["url"] # heap[jobs[i]]["fetch"]["url"]

-----------------------------------------------------------------------------
(* C4 as stated: a compilation error aborts only its descriptor: once
   process_fetch_job has ended on the input from_manifests completed, every
   descriptor but the failing one has its task emitted. *)
SiblingsSurviveError ==
    (fm_done /\ pc = IOError) => Len(tasks) = Len(expanded) - 1

\* what holds of process_fetch_job in every state
ErrorAbortsBatchState ==
    /\ pc \in {"running", "done"} => Len(tasks) = pf_n
    /\ pc = "done" => fm_done /\ Len(tasks) = Len(expanded)
    /\ pc = IOError =>
           /\ pf_n >= 1
           /\ Len(tasks) = pf_n - 1
           /\ HasGpg(Fetch(pf_n))
    /\ \A k \in 1..Len(tasks) : tasks[k].task["label"] = "fetch-" \o Desc(k)["name"]

(* C4 amended: a compilation error (the gpg key file cannot be opened) ends
   process_fetch_job: the tasks of the descriptors before the failing one have
   been emitted, in order, and no task is emitted for the failing descriptor
   nor, from then on, for any later one; without an error no descriptor is
   left out. *)
ErrorAbortsBatch ==
    /\ []ErrorAbortsBatchState
    /\ [][pc = IOError => (tasks' = tasks /\ pf_n' = pf_n /\ pc' = pc)]_vars

\* the key file of the second of three descriptors could not be opened
ErrorAbortsBatchWitness ==
    /\ pc = IOError
    /\ fm_done
    /\ Len(tasks) = 1
    /\ Len(expanded) >= 3

-----------------------------------------------------------------------------
StaticFetchKeys == FetchKeys \ {"url", "sha256", "size", "gpg-signature", "artifact-name"}

(* C6: for N manifest records from_manifests yields N descriptors per template
   job, grouped by job in input order and in manifest order within a job; the
   k-th carries the url, sha256 and size of its manifest record and the name,
   description and other fetch fields of its template. *)
ExpansionIsOrderedProduct ==
    /\ \A k \in 1..Len(expanded) :
           /\ Len(manifests) > 0
           /\ JobIdx(k) \in 1..Len(jobs)
           /\ Fetch(k)["url"] = Manifest(k)["url"]
           /\ Fetch(k)["sha256"] = Manifest(k)["sha256"]
           /\ Fetch(k)["size"] = Manifest(k)["filesize"]
           /\ \A f \in JobKeys \ {"fetch"} : FieldEq(Desc(k), Template(k), f)
           /\ \A f \in StaticFetchKeys : FieldEq(Fetch(k), TemplateFetch(Template(k)), f)
    /\ fm_done => Len(expanded) = Len(jobs) * Len(manifests)

\* from_manifests has returned on two different jobs and two different manifest
\* records
ExpansionIsOrderedProductWitness ==
    /\ fm_done
    /\ Len(jobs) = 2
    /\ Len(manifests) = 2
    /\ Len(expanded) = 4
    /\ heap[jobs[1]] # heap[jobs[2]]
    /\ manifests[1] # manifests[2]

-----------------------------------------------------------------------------
\* the manifest has the key with a non-empty value
ManifestSets(m, f) == f \in DOMAIN m /\ m[f] # IF f = "gpg-signature" THEN EmptyDict ELSE ""

\* what holds of every yielded descriptor
OverlayState ==
    \A k \in 1..Len(expanded) :
        /\ Fetch(k)["url"] = Manifest(k)["url"]
        /\ Fetch(k)["sha256"] = Manifest(k)["sha256"]
        /\ Fetch(k)["size"] = Manifest(k)["filesize"]
        /\ \A f \in {"gpg-signature", "artifact-name"} :
               IF ManifestSets(Manifest(k), f)
               THEN f \in DOMAIN Fetch(k) /\ Fetch(k)[f] = Manifest(k)[f]
               ELSE FieldEq(Fetch(k), TemplateFetch(Template(k)), f)

(* C7: url, sha256 and size of every yielded descriptor are the manifest
   record's url, sha256 and filesize; gpg-signature and artifact-name are the
   manifest's when it has the key with a non-empty value and the template's
   (or absent) otherwise; and no step changes a template job or a descriptor
   yielded before. *)
OverlayAndFrame ==
    /\ []OverlayState
    /\ [][\A r \in 1..Len(heap) : heap'[r] = heap[r]]_vars

\* a template with its own signature and artifact name was expanded with a
\* manifest that sets both, and with one that has an empty artifact name
OverlayAndFrameWitness ==
    /\ \E k \in 1..Len(expanded) :
           /\ "artifact-name" \in DOMAIN TemplateFetch(Template(k))
           /\ "gpg-signature" \in DOMAIN TemplateFetch(Template(k))
           /\ ManifestSets(Manifest(k), "artifact-name")
           /\ ManifestSets(Manifest(k), "gpg-signature")
           /\ Fetch(k)["artifact-name"] # TemplateFetch(Template(k))["artifact-name"]
    /\ \E k \in 1..Len(expanded) :
           /\ "artifact-name" \in DOMAIN Manifest(k)
           /\ ~ManifestSets(Manifest(k), "artifact-name")
           /\ Fetch(k)["artifact-name"] = "t.tar.zst"
           /\ k > 1

-----------------------------------------------------------------------------
Elements(q) == { q[p] : p \in DOMAIN q }

(* C9: promote_adhoc returns exactly the labels of the tasks of the full task
   graph whose shipping-phase attribute is 'build' or 'promote': every such
   label once, and no label of a task without the attribute or with another
   value. *)
PromoteSelectsBuildAndPromote ==
    target_pc = "returned" =>
        /\ Elements(target_tasks) \subseteq DOMAIN full_task_graph
        /\ \A l \in DOMAIN full_task_graph :
               l \in Elements(target_tasks) <=>
                   /\ "shipping-phase" \in DOMAIN full_task_graph[l]
                   /\ \/ full_task_graph[l]["shipping-phase"] = "build"
                      \/ full_task_graph[l]["shipping-phase"] = "promote"
        /\ Len(target_tasks) = Cardinality(Elements(target_tasks))

\* a build task and a promote task were selected from a graph that also holds a
\* task without the attribute
PromoteSelectsBuildAndPromoteWitness ==
    /\ target_pc = "returned"
    /\ Len(target_tasks) = 2
    /\ \E a, b, c \in DOMAIN full_task_graph :
           /\ DOMAIN full_task_graph[a] = {}
           /\ full_task_graph[b] = ("shipping-phase" :> "build")
           /\ full_task_graph[c] = ("shipping-phase" :> "promote")

====
